---- MODULE Spec2Model ----
(***************************************************************************)
(* Model of generate_ecommerce_db.py (src/24091865_Sri_lekha.py): a single *)
(* sequential script that generates products, customers, orders, order     *)
(* items and shipments in memory, bulk-inserts them into an SQLite         *)
(* database with foreign keys enforced, and finally updates                *)
(* Customers.total_spent from the persisted Orders.                        *)
(*                                                                         *)
(* Representation.                                                         *)
(*  - Money is counted in cents (a float with two decimals is the integer  *)
(*    number of cents); an unrounded product price*qty*(1-discount) is     *)
(*    counted in hundredths of a cent.                                     *)
(*  - A datetime/date is its proleptic Gregorian ordinal (date.toordinal); *)
(*    an ISO date string "YYYY-MM-DD" is the triple <<Y, M, D>>, whose     *)
(*    lexicographic order is the order of the strings.                     *)
(*  - Python None / SQL NULL is None for text and numbers, NoDate for an   *)
(*    ISO date.                                                            *)
(*  - The seeded random module and Faker are the draw sets below: a value  *)
(*    the generator can return is chosen with \E.                          *)
(***************************************************************************)
EXTENDS Integers, Sequences, FiniteSets, TLC

VARIABLES
    pc,             \* position of the script
    cfg,            \* the configuration constants of the run (lines 55-58, 178, 184, 231)
    now,            \* the date datetime.now() returns in this run
    rerun_now,      \* the date datetime.now() returns in a second run with the same seed
    rerun_dob,      \* date_of_birth column the second run computes from the same draws
    products,       \* list `products`
    customers,      \* list `customers`
    missing_sample, \* random.sample(...) iterated by the missing-contact loop
    dup_indices,    \* list `dup_indices`
    k,              \* number of iterations done of the current noise loop
    orders,         \* list `orders`
    order_items,    \* list `order_items`
    shipments,      \* list `shipments`
    order_id_seq,   \* counter `order_id_seq`
    num_order_dupes,\* `num_order_dupes`
    Categories, Products, Customers, Orders, Order_Items, Shipments, \* the tables
    cust_totals,    \* rows fetched by the GROUP BY query
    log,            \* the committed statements, in order
    ts_writes       \* per customer id, the number of UPDATEs that wrote its total_spent

vars == <<pc, cfg, now, rerun_now, rerun_dob, products, customers, missing_sample,
          dup_indices, k, orders, order_items, shipments, order_id_seq,
          num_order_dupes, Categories, Products, Customers, Orders, Order_Items, Shipments,
          cust_totals, log, ts_writes>>

None == "None"
NoDate == <<>>

----------------------------------------------------------------------------
(* Calendar: datetime.date ordinals and ISO strings.                       *)

IsLeap(y) == (y % 4 = 0) /\ ((y % 100 # 0) \/ (y % 400 = 0))

DaysBeforeYear(y) ==
    LET p == y - 1 IN 365 * p + (p \div 4) - (p \div 100) + (p \div 400)

DaysInMonth(y, m) ==
    IF m = 2 THEN (IF IsLeap(y) THEN 29 ELSE 28)
    ELSE IF m \in {4, 6, 9, 11} THEN 30 ELSE 31

RECURSIVE DaysBeforeMonth(_, _)
DaysBeforeMonth(y, m) ==
    IF m = 1 THEN 0 ELSE DaysBeforeMonth(y, m - 1) + DaysInMonth(y, m - 1)

\* datetime(y, m, d) / date.fromisoformat: the ordinal of an ISO date
fromisoformat(iso) == DaysBeforeYear(iso[1]) + DaysBeforeMonth(iso[1], iso[2]) + iso[3]

\* date.isoformat: the ISO date of an ordinal
isoformat(n) ==
    LET y == CHOOSE c \in (n \div 366)..((n \div 365) + 1) :
                 DaysBeforeYear(c) < n /\ n <= DaysBeforeYear(c + 1)
        r == n - DaysBeforeYear(y)
        m == CHOOSE c \in 1..12 :
                 DaysBeforeMonth(y, c) < r /\ r <= DaysBeforeMonth(y, c) + DaysInMonth(y, c)
    IN  <<y, m, r - DaysBeforeMonth(y, m)>>

\* order of two ISO date strings (string comparison of "YYYY-MM-DD")
IsoLeq(a, b) ==
    \/ a[1] < b[1]
    \/ a[1] = b[1] /\ a[2] < b[2]
    \/ a[1] = b[1] /\ a[2] = b[2] /\ a[3] <= b[3]

----------------------------------------------------------------------------
(* Rounding.                                                               *)

\* round(x, 2) of a float x whose exact decimal value is v hundredths of a
\* cent: the cents it can return, as a list.  On a decimal tie (..5) the
\* binary float is just above or just below the tie, so either neighbour can
\* come out (5.01*5*0.9 gives 22.54, 5.03*5*0.9 gives 22.64).
Round2(v) ==
    LET q == v \div 100
        r == v % 100
    IN  IF r < 50 THEN <<q>> ELSE IF r > 50 THEN <<q + 1>> ELSE <<q, q + 1>>

\* int(pct/100 * n) for the rates 0.02 and 0.01
IntPct(pct, n) == (pct * n) \div 100

Max(a, b) == IF a >= b THEN a ELSE b

RECURSIVE SumFromTo(_, _, _)
SumFromTo(s, lo, hi) ==
    IF lo > hi THEN 0
    ELSE IF lo = hi THEN s[lo]
    ELSE LET mid == (lo + hi) \div 2
         IN  SumFromTo(s, lo, mid) + SumFromTo(s, mid + 1, hi)

\* sum(...) / SUM(...) of a list of numbers
SumSeq(s) == SumFromTo(s, 1, Len(s))

Range(s) == {s[i] : i \in 1..Len(s)}

----------------------------------------------------------------------------
(* Configuration.                                                          *)

NUM_CUSTOMERS == 1000
NUM_CATEGORIES == 12
NUM_PRODUCTS == 300
NUM_ORDERS == 1400
PRICE_MIN == 500
PRICE_MAX == 100000
MISSING_PCT == 2
DUP_PCT == 1
ORDER_DUPE_PCT == 1

TIERS == <<"Bronze", "Silver", "Gold", "Platinum">>
GENDERS == <<"Male", "Female", "Non-binary", "Prefer not to say">>

categories == <<"Electronics", "Clothing", "Home & Kitchen", "Books", "Toys", "Sports",
                "Beauty", "Groceries", "Automotive", "Office", "Garden", "Health">>

\* Sizes of the scaled-down runs.
ScaledProducts == 2
ScaledCustomers == 3
ScaledOrders == 2
ScaledMissingPct == 67
ScaledDupPct == 34
ScaledOrderDupePct == 67

\* The script as written: every constant as in the source.  No draw is
\* enumerated: each returns the value the tape gives it.
FullCfg ==
    [NUM_CUSTOMERS |-> NUM_CUSTOMERS, NUM_PRODUCTS |-> NUM_PRODUCTS,
     NUM_ORDERS |-> NUM_ORDERS, missing_pct |-> MISSING_PCT, dup_pct |-> DUP_PCT,
     order_dupe_pct |-> ORDER_DUPE_PCT, rich |-> {}]

\* The script with its sizes scaled down, the draws of the groups in `rich`
\* enumerated.
ScaledCfg(rich) ==
    [NUM_CUSTOMERS |-> ScaledCustomers, NUM_PRODUCTS |-> ScaledProducts,
     NUM_ORDERS |-> ScaledOrders, missing_pct |-> ScaledMissingPct,
     dup_pct |-> ScaledDupPct, order_dupe_pct |-> ScaledOrderDupePct, rich |-> rich]

----------------------------------------------------------------------------
(* The seeded generators.  A draw of group g returns any of the sample     *)
(* values when g is enumerated (g \in cfg.rich), and otherwise the value   *)
(* at position i of a fixed tape over the samples.                         *)

Draw(g, samples, i) ==
    IF g \in cfg.rich THEN Range(samples) ELSE {samples[(i % Len(samples)) + 1]}

\* random.randint(1, n) / random.choice over n entries: every value 1..n
UpTo(n) == [i \in 1..n |-> i]

RECURSIVE Perms(_, _)
\* the sequences of k distinct elements of S
Perms(S, n) ==
    IF n = 0 THEN {<<>>}
    ELSE UNION {{<<x>> \o p : p \in Perms(S \ {x}, n - 1)} : x \in S}

\* a sampler that may repeat an index (random.choices in place of random.sample)
Sample_repeating(g, n, num) ==
    IF g \in cfg.rich THEN [1..num -> 0..(n - 1)] ELSE {[j \in 1..num |-> 0]}

\* random.sample(range(n), k): a list of k distinct indices 0..n-1
Sample(g, n, num) ==
    IF g \in cfg.rich THEN Perms(0..(n - 1), num) ELSE {[j \in 1..num |-> j - 1]}

WordSamples == <<"Alpha Pro 100", "Beta Max 999">>
PriceSamples == <<510, PRICE_MAX, PRICE_MIN, 503>>
StockSamples == <<0, 500>>
NameSamples == <<"Ann Lee", "Bob Ray", "Cy Dunn">>
EmailSamples == <<"ann@example.org", "bob@example.net">>
PhoneSamples == <<"555-0100", "555-0199">>
AddressSamples == <<"1 Main St, Springfield", "9 Elm Rd, Shelbyville">>
TierSamples == TIERS
AgeDaySamples == <<18 * 365, 70 * 365>>
NowSamples == <<fromisoformat(<<2026, 11, 6>>), fromisoformat(<<2026, 11, 7>>)>>
PromoSamples == <<None, "NEW10">>
ItemCountSamples == <<1, 2>>
QtySamples == <<1, 5>>
DiscountSamples == <<0, 0, 5, 10>>
CoinSamples == <<TRUE, FALSE>>
ShortDelaySamples == <<0>>
LongDelaySamples == <<20>>
WhichSamples == <<1, 2, 3>>
CarrierSamples == <<"DHL", "FedEx", "UPS", "Local">>
TrackSamples == <<"TRACK-00000", "TRACK-99999">>

\* rand_date(start_year, end_year): an ISO date between the two years' ends
rand_date(g, start_year, end_year, i) ==
    LET start == fromisoformat(<<start_year, 1, 1>>)
        end == fromisoformat(<<end_year, 12, 31>>)
        delta == end - start
    IN  {isoformat(start + d) : d \in Draw(g, <<0, delta, 58, delta - 306>>, i)}

rand_order_date(g, i) == rand_date(g, 2021, 2024, i)

\* the delay subtracted instead of added
rand_shipment_date_back(order_date_iso, i) ==
    IF order_date_iso = NoDate THEN {NoDate}
    ELSE LET od == fromisoformat(order_date_iso)
         IN  {IF which = 3 THEN NoDate
              ELSE isoformat(od - (IF which = 1 THEN a ELSE b)) :
                 which \in Draw("shipments", WhichSamples, i),
                 a \in Draw("shipments", ShortDelaySamples, i),
                 b \in Draw("shipments", LongDelaySamples, i)}

\* rand_shipment_date(order_date_iso): random.choices over
\* [randint(0,10), randint(11,20), None]
rand_shipment_date(order_date_iso, i) ==
    IF order_date_iso = NoDate THEN {NoDate}
    ELSE LET od == fromisoformat(order_date_iso)
         IN  {IF which = 3 THEN NoDate
              ELSE isoformat(od + (IF which = 1 THEN a ELSE b)) :
                 which \in Draw("shipments", WhichSamples, i),
                 a \in Draw("shipments", ShortDelaySamples, i),
                 b \in Draw("shipments", LongDelaySamples, i)}

----------------------------------------------------------------------------
(* The schema: what an INSERT or UPDATE must satisfy to be accepted.       *)
(* Foreign keys are enforced (PRAGMA foreign_keys = ON).                   *)

Ids(table, col) == {table[i][col] : i \in 1..Len(table)}

Unique(rows, col) == \A i, j \in 1..Len(rows) : rows[i][col] = rows[j][col] => i = j

Categories_ok(rows) ==
    /\ Unique(rows, "category_id")
    /\ \A i \in 1..Len(rows) : rows[i].category_name # None

Products_ok(rows) ==
    /\ Unique(rows, "product_id")
    /\ \A i \in 1..Len(rows) :
          /\ rows[i].product_name # None
          /\ rows[i].price >= 0
          /\ rows[i].stock >= 0
          /\ rows[i].category_id \in Ids(Categories, "category_id")

Customers_ok(rows) ==
    /\ Unique(rows, "customer_id")
    /\ \A i \in 1..Len(rows) :
          /\ rows[i].customer_name # None
          /\ rows[i].total_spent >= 0

Orders_ok(rows) ==
    /\ Unique(rows, "order_id")
    /\ \A i \in 1..Len(rows) :
          /\ rows[i].order_total >= 0
          /\ rows[i].customer_id \in Ids(Customers, "customer_id")

Order_Items_ok(rows) ==
    /\ \A i, j \in 1..Len(rows) :
          (rows[i].order_id = rows[j].order_id /\ rows[i].item_no = rows[j].item_no)
             => i = j
    /\ \A i \in 1..Len(rows) :
          /\ rows[i].quantity >= 0
          /\ rows[i].unit_price >= 0
          /\ rows[i].line_total >= 0
          /\ rows[i].order_id \in Ids(Orders, "order_id")
          /\ rows[i].product_id \in Ids(Products, "product_id")

Shipments_ok(rows) ==
    \A i \in 1..Len(rows) : rows[i].order_id \in Ids(Orders, "order_id")

----------------------------------------------------------------------------
(* The script.                                                             *)

InitWith(c) ==
    /\ cfg = c
    /\ pc = "categories"
    /\ now \in Draw("clock", NowSamples, 0)
    /\ rerun_now \in Draw("clock", NowSamples, 1)
    /\ rerun_dob = <<>>
    /\ products = <<>>
    /\ customers = <<>>
    /\ missing_sample = <<>>
    /\ dup_indices = <<>>
    /\ k = 0
    /\ orders = <<>>
    /\ order_items = <<>>
    /\ shipments = <<>>
    /\ order_id_seq = 1
    /\ num_order_dupes = 0
    /\ Categories = <<>>
    /\ Products = <<>>
    /\ Customers = <<>>
    /\ Orders = <<>>
    /\ Order_Items = <<>>
    /\ Shipments = <<>>
    /\ cust_totals = <<>>
    /\ log = <<>>
    /\ ts_writes = [c2 \in 1..c.NUM_CUSTOMERS |-> 0]

\* executemany(INSERT ...) and commit: all rows, or the run ends on the error
Commit(stmt, ok, after) ==
    /\ pc' = IF ok THEN after ELSE "aborted"
    /\ log' = IF ok THEN Append(log, stmt) ELSE log

\* lines 140-146
InsertCategories ==
    /\ pc = "categories"
    /\ LET rows == [i \in 1..Len(categories) |->
                      [category_id |-> i, category_name |-> categories[i]]]
       IN  /\ Commit("Categories", Categories_ok(rows), "products")
           /\ Categories' = IF Categories_ok(rows) THEN rows ELSE Categories
    /\ UNCHANGED <<cfg, now, rerun_now, rerun_dob, products, customers, missing_sample,
                   dup_indices, k, orders, order_items, shipments, order_id_seq,
                   num_order_dupes, Products, Customers, Orders, Order_Items,
                   Shipments, cust_totals, ts_writes>>

\* lines 150-155: one iteration of the product loop
GenProduct ==
    /\ pc = "products"
    /\ Len(products) < cfg.NUM_PRODUCTS
    /\ LET pid == Len(products) + 1 IN
       \E cat_id \in Draw("products", UpTo(NUM_CATEGORIES), pid - 1),
          pname \in Draw("products", WordSamples, pid),
          price \in Draw("products", PriceSamples, pid - 1),
          stock \in Draw("products", StockSamples, pid) :
          products' = Append(products,
              [product_id |-> pid, product_name |-> pname, category_id |-> cat_id,
               price |-> price, stock |-> stock])
    /\ UNCHANGED <<pc, cfg, now, rerun_now, rerun_dob, customers, missing_sample,
                   dup_indices, k, orders, order_items, shipments, order_id_seq,
                   num_order_dupes, Categories, Products, Customers, Orders,
                   Order_Items, Shipments, cust_totals, log, ts_writes>>

\* lines 157-161
InsertProducts ==
    /\ pc = "products"
    /\ Len(products) = cfg.NUM_PRODUCTS
    /\ Commit("Products", Products_ok(products), "customers")
    /\ Products' = IF Products_ok(products) THEN products ELSE Products
    /\ UNCHANGED <<cfg, now, rerun_now, rerun_dob, products, customers, missing_sample,
                   dup_indices, k, orders, order_items, shipments, order_id_seq,
                   num_order_dupes, Categories, Customers, Orders, Order_Items,
                   Shipments, cust_totals, ts_writes>>

\* date_of_birth as line 168 computes it at clock reading t
date_of_birth(t, days) == isoformat(t - days)

\* lines 165-175: one iteration of the customer loop
GenCustomer ==
    /\ pc = "customers"
    /\ Len(customers) < cfg.NUM_CUSTOMERS
    /\ LET cid == Len(customers) + 1 IN
       \E name \in Draw("customers", NameSamples, cid),
          gender \in Draw("customers", GENDERS, cid),
          days \in Draw("customers", AgeDaySamples, cid),
          email \in Draw("customers", EmailSamples, cid),
          phone \in Draw("customers", PhoneSamples, cid),
          address \in Draw("customers", AddressSamples, cid),
          tier \in Draw("customers", TierSamples, cid),
          reg_date \in rand_date("customers", 2018, 2024, cid) :
          /\ customers' = Append(customers,
                [customer_id |-> cid, customer_name |-> name, gender |-> gender,
                 date_of_birth |-> date_of_birth(now, days), email |-> email,
                 phone_number |-> phone, address |-> address, customer_tier |-> tier,
                 registration_date |-> reg_date, total_spent |-> 0])
          /\ rerun_dob' = Append(rerun_dob, date_of_birth(rerun_now, days))
    /\ UNCHANGED <<pc, cfg, now, rerun_now, products, missing_sample,
                   dup_indices, k, orders, order_items, shipments, order_id_seq,
                   num_order_dupes, Categories, Products, Customers, Orders,
                   Order_Items, Shipments, cust_totals, log, ts_writes>>

\* lines 178-179: the rows that lose a contact field
SampleMissing ==
    /\ pc = "customers"
    /\ Len(customers) = cfg.NUM_CUSTOMERS
    /\ LET num_missing == IntPct(cfg.missing_pct, Len(customers)) IN
       missing_sample' \in Sample("noise", Len(customers), num_missing)
    /\ k' = 0
    /\ pc' = "missing"
    /\ UNCHANGED <<cfg, now, rerun_now, rerun_dob, products, customers,
                   dup_indices, orders, order_items, shipments, order_id_seq,
                   num_order_dupes, Categories, Products, Customers, Orders,
                   Order_Items, Shipments, cust_totals, log, ts_writes>>

\* the list positions 4, 5, 6 of a customer row (line 180)
Column(col) == CASE col = 4 -> "email" [] col = 5 -> "phone_number" [] col = 6 -> "address"

\* lines 179-181: one iteration of the missing-contact loop
NullContact ==
    /\ pc = "missing"
    /\ k < Len(missing_sample)
    /\ LET idx == missing_sample[k + 1] IN
       \E col \in Draw("noise", <<4, 5, 6>>, k) :
          customers' = [customers EXCEPT ![idx + 1][Column(col)] = None]
    /\ k' = k + 1
    /\ UNCHANGED <<pc, cfg, now, rerun_now, rerun_dob, products, missing_sample,
                   dup_indices, orders, order_items, shipments, order_id_seq,
                   num_order_dupes, Categories, Products, Customers, Orders,
                   Order_Items, Shipments, cust_totals, log, ts_writes>>

\* lines 184-185: the rows that become duplicates
SampleDup ==
    /\ pc = "missing"
    /\ k = Len(missing_sample)
    /\ LET num_dup == IntPct(cfg.dup_pct, Len(customers)) IN
       dup_indices' \in Sample("noise", Len(customers), num_dup)
    /\ k' = 0
    /\ pc' = "dup"
    /\ UNCHANGED <<cfg, now, rerun_now, rerun_dob, products, customers, missing_sample,
                   orders, order_items, shipments, order_id_seq,
                   num_order_dupes, Categories, Products, Customers, Orders,
                   Order_Items, Shipments, cust_totals, log, ts_writes>>

\* lines 186-190: one iteration of the duplicate loop
DupIdentity ==
    /\ pc = "dup"
    /\ k < Len(dup_indices)
    /\ LET idx == dup_indices[k + 1] IN
       \E s \in Draw("noise", UpTo(Len(customers)), k + 1),
          coin \in Draw("noise", CoinSamples, k) :
          LET src == customers[s]
              named == [customers EXCEPT ![idx + 1].customer_name = src.customer_name]
          IN  customers' = IF coin THEN [named EXCEPT ![idx + 1].email = src.email]
                           ELSE named
    /\ k' = k + 1
    /\ UNCHANGED <<pc, cfg, now, rerun_now, rerun_dob, products, missing_sample,
                   dup_indices, orders, order_items, shipments, order_id_seq,
                   num_order_dupes, Categories, Products, Customers, Orders,
                   Order_Items, Shipments, cust_totals, log, ts_writes>>

\* lines 192-196
InsertCustomers ==
    /\ pc = "dup"
    /\ k = Len(dup_indices)
    /\ Commit("Customers", Customers_ok(customers), "orders")
    /\ Customers' = IF Customers_ok(customers) THEN customers ELSE Customers
    /\ UNCHANGED <<cfg, now, rerun_now, rerun_dob, products, customers, missing_sample,
                   dup_indices, k, orders, order_items, shipments, order_id_seq,
                   num_order_dupes, Categories, Products, Orders, Order_Items,
                   Shipments, cust_totals, ts_writes>>

\* line 216: the line totals round(unit_price * qty * (1 - discount), 2) can give
LineTotals(unit_price, qty, discount, i) ==
    Draw("items", Round2(unit_price * qty * (100 - discount)), i)

\* lines 212-217: the rows one iteration of the item loop can append
ItemChoices(order_id, item_no) ==
    UNION {{[order_id |-> order_id, item_no |-> item_no,
             product_id |-> products[t[1]].product_id, quantity |-> t[2],
             unit_price |-> products[t[1]].price, line_total |-> line_total] :
               line_total \in LineTotals(products[t[1]].price, t[2], t[3],
                                         order_id + item_no)} :
            t \in Draw("picks", UpTo(Len(products)), order_id + item_no)
                  \X Draw("items", QtySamples, order_id + item_no)
                  \X Draw("items", DiscountSamples, order_id + item_no)}

RECURSIVE ItemSeqs(_, _, _)
\* lines 209-219: the item rows of one order, item_no counting from `item_no`
ItemSeqs(order_id, item_no, n_items) ==
    IF item_no > n_items THEN {<<>>}
    ELSE {<<it>> \o rest : it \in ItemChoices(order_id, item_no),
                           rest \in ItemSeqs(order_id, item_no + 1, n_items)}

\* order_total assigned (=) instead of accumulated (+=)
OrderTotal_last(items) == items[Len(items)].line_total

\* lines 210, 218, 221: order_total accumulated over the items and rounded
OrderTotal(items) ==
    CHOOSE t \in Range(Round2(100 * SumSeq([j \in 1..Len(items) |-> items[j].line_total]))) :
        TRUE

\* lines 226 / 246: delivered = rand_shipment_date(shipped) if shipped is not None
Delivered(shipped, i) ==
    IF shipped # NoDate THEN rand_shipment_date(shipped, i) ELSE {NoDate}

\* lines 224-227 / 244-247: the shipment rows (none or one) of an order
ShipmentChoices(order_id, order_date) ==
    LET dates == UNION {{<<shipped, delivered>> :
                            delivered \in Delivered(shipped, order_id + 1)} :
                         shipped \in rand_shipment_date(order_date, order_id)}
    IN  {IF coin
           THEN <<[shipment_id |-> None, order_id |-> order_id, shipped_date |-> sd[1],
                   delivery_date |-> sd[2], carrier |-> carrier,
                   tracking_number |-> track]>>
           ELSE <<>> :
            coin \in Draw("shipments", CoinSamples, order_id),
            sd \in dates,
            carrier \in Draw("labels", CarrierSamples, order_id),
            track \in Draw("labels", TrackSamples, order_id)}

\* random.randint(0, NUM_CUSTOMERS)
CustomerIdChoices_zero(i) ==
    Draw("orders", [j \in 1..(cfg.NUM_CUSTOMERS + 1) |-> j - 1], i * i)

\* line 204: random.randint(1, NUM_CUSTOMERS)
CustomerIdChoices(i) == Draw("orders", UpTo(cfg.NUM_CUSTOMERS), i * i)

\* lines 203-228: one iteration of the base order loop
GenOrder ==
    /\ pc = "orders"
    /\ Len(orders) < cfg.NUM_ORDERS
    /\ \E cust \in CustomerIdChoices(order_id_seq),
          order_date \in rand_order_date("dates", order_id_seq),
          promo \in Draw("orders", PromoSamples, order_id_seq),
          n_items \in Draw("counts", ItemCountSamples, order_id_seq) :
          \E items \in ItemSeqs(order_id_seq, 1, n_items),
             ship \in ShipmentChoices(order_id_seq, order_date) :
             /\ order_items' = order_items \o items
             /\ orders' = Append(orders,
                   [order_id |-> order_id_seq, customer_id |-> cust,
                    order_date |-> order_date, order_total |-> OrderTotal(items),
                    promo_code |-> promo])
             /\ shipments' = shipments \o ship
    /\ order_id_seq' = order_id_seq + 1
    /\ UNCHANGED <<pc, cfg, now, rerun_now, rerun_dob, products, customers,
                   missing_sample, dup_indices, k, num_order_dupes, Categories,
                   Products, Customers, Orders, Order_Items, Shipments, cust_totals,
                   log, ts_writes>>

\* one near-duplicate too many (the rate rounded up)
CountOrderDupes_up ==
    /\ pc = "orders"
    /\ Len(orders) = cfg.NUM_ORDERS
    /\ num_order_dupes' = Max(1, IntPct(cfg.order_dupe_pct, Len(orders)) + 1)
    /\ k' = 0
    /\ pc' = "dupes"
    /\ UNCHANGED <<cfg, now, rerun_now, rerun_dob, products, customers, missing_sample,
                   dup_indices, orders, order_items, shipments, order_id_seq,
                   Categories, Products, Customers, Orders, Order_Items, Shipments,
                   cust_totals, log, ts_writes>>

\* line 231
CountOrderDupes ==
    /\ pc = "orders"
    /\ Len(orders) = cfg.NUM_ORDERS
    /\ num_order_dupes' = Max(1, IntPct(cfg.order_dupe_pct, Len(orders)))
    /\ k' = 0
    /\ pc' = "dupes"
    /\ UNCHANGED <<cfg, now, rerun_now, rerun_dob, products, customers, missing_sample,
                   dup_indices, orders, order_items, shipments, order_id_seq,
                   Categories, Products, Customers, Orders, Order_Items, Shipments,
                   cust_totals, log, ts_writes>>

\* a near-duplicate that drops the promo code of the copied row
DupeRows_nopromo(row, prod, order_id) ==
    LET unit_price == prod.price
        qty == 1
        line_total == CHOOSE t \in Range(Round2(100 * unit_price * qty)) : TRUE
    IN  [order |-> [order_id |-> order_id, customer_id |-> row.customer_id,
                    order_date |-> row.order_date, order_total |-> line_total,
                    promo_code |-> None],
         item |-> [order_id |-> order_id, item_no |-> 1, product_id |-> prod.product_id,
                   quantity |-> qty, unit_price |-> unit_price,
                   line_total |-> line_total]]

\* lines 238-243: the order and item rows of a near-duplicate of `row`
DupeRows(row, prod, order_id) ==
    LET unit_price == prod.price
        qty == 1
        line_total == CHOOSE t \in Range(Round2(100 * unit_price * qty)) : TRUE
    IN  [order |-> [order_id |-> order_id, customer_id |-> row.customer_id,
                    order_date |-> row.order_date, order_total |-> line_total,
                    promo_code |-> row.promo_code],
         item |-> [order_id |-> order_id, item_no |-> 1, product_id |-> prod.product_id,
                   quantity |-> qty, unit_price |-> unit_price,
                   line_total |-> line_total]]

\* lines 232-248: one iteration of the near-duplicate loop
GenDupeOrder ==
    /\ pc = "dupes"
    /\ k < num_order_dupes
    /\ \E r \in Draw("orders", UpTo(Len(orders)), k * (2 * Len(orders) - 1)),
          p \in Draw("picks", UpTo(Len(products)), order_id_seq) :
          LET new == DupeRows(orders[r], products[p], order_id_seq) IN
          \E ship \in ShipmentChoices(order_id_seq, orders[r].order_date) :
             /\ orders' = Append(orders, new.order)
             /\ order_items' = Append(order_items, new.item)
             /\ shipments' = shipments \o ship
    /\ order_id_seq' = order_id_seq + 1
    /\ k' = k + 1
    /\ UNCHANGED <<pc, cfg, now, rerun_now, rerun_dob, products, customers,
                   missing_sample, dup_indices, num_order_dupes, Categories,
                   Products, Customers, Orders, Order_Items, Shipments, cust_totals,
                   log, ts_writes>>

\* the Orders insert left out before the Order_Items insert
InsertOrders_skipped ==
    /\ pc = "dupes"
    /\ k = num_order_dupes
    /\ pc' = "insert_order_items"
    /\ UNCHANGED <<cfg, now, rerun_now, rerun_dob, products, customers, missing_sample,
                   dup_indices, k, orders, order_items, shipments, order_id_seq,
                   num_order_dupes, Categories, Products, Customers, Orders, Order_Items,
                   Shipments, cust_totals, log, ts_writes>>

\* lines 250-252
InsertOrders ==
    /\ pc = "dupes"
    /\ k = num_order_dupes
    /\ Commit("Orders", Orders_ok(orders), "insert_order_items")
    /\ Orders' = IF Orders_ok(orders) THEN orders ELSE Orders
    /\ UNCHANGED <<cfg, now, rerun_now, rerun_dob, products, customers, missing_sample,
                   dup_indices, k, orders, order_items, shipments, order_id_seq,
                   num_order_dupes, Categories, Products, Customers, Order_Items,
                   Shipments, cust_totals, ts_writes>>

\* lines 254-256
InsertOrderItems ==
    /\ pc = "insert_order_items"
    /\ Commit("Order_Items", Order_Items_ok(order_items), "insert_shipments")
    /\ Order_Items' = IF Order_Items_ok(order_items) THEN order_items ELSE Order_Items
    /\ UNCHANGED <<cfg, now, rerun_now, rerun_dob, products, customers, missing_sample,
                   dup_indices, k, orders, order_items, shipments, order_id_seq,
                   num_order_dupes, Categories, Products, Customers, Orders,
                   Shipments, cust_totals, ts_writes>>

\* lines 258-260: shipment_id is NULL in the row and assigned by the table
InsertShipments ==
    /\ pc = "insert_shipments"
    /\ Commit("Shipments", Shipments_ok(shipments), "select_totals")
    /\ Shipments' = IF Shipments_ok(shipments)
                    THEN [i \in 1..Len(shipments) |->
                            [shipments[i] EXCEPT !.shipment_id = i]]
                    ELSE Shipments
    /\ UNCHANGED <<cfg, now, rerun_now, rerun_dob, products, customers, missing_sample,
                   dup_indices, k, orders, order_items, shipments, order_id_seq,
                   num_order_dupes, Categories, Products, Customers, Orders,
                   Order_Items, cust_totals, ts_writes>>

\* the total of one order of the customer in place of the SUM
GroupBySum_one(rows) ==
    {<<c, rows[CHOOSE i \in 1..Len(rows) : rows[i].customer_id = c].order_total>> :
        c \in Ids(rows, "customer_id")}

\* SELECT customer_id, SUM(order_total) FROM Orders GROUP BY customer_id
GroupBySum(rows) ==
    {<<c, SumSeq([i \in 1..Len(rows) |->
                    IF rows[i].customer_id = c THEN rows[i].order_total ELSE 0])>> :
        c \in Ids(rows, "customer_id")}

\* lines 264-267
SelectTotals ==
    /\ pc = "select_totals"
    /\ cust_totals' = GroupBySum(Orders)
    /\ pc' = "update_totals"
    /\ UNCHANGED <<cfg, now, rerun_now, rerun_dob, products, customers, missing_sample,
                   dup_indices, k, orders, order_items, shipments, order_id_seq,
                   num_order_dupes, Categories, Products, Customers, Orders,
                   Order_Items, Shipments, log, ts_writes>>

\* line 268: round(total if total else 0, 2)
NewTotal(total) ==
    CHOOSE t \in Range(Round2(100 * (IF total # 0 THEN total ELSE 0))) : TRUE

\* an UPDATE without its WHERE clause
RowsWritten_all(c, totals) == Cardinality(totals)

\* line 268: the UPDATE statements whose WHERE customer_id = ? matches customer c
RowsWritten(c, totals) == Cardinality({t \in totals : t[1] = c})

\* line 268: UPDATE Customers SET total_spent = ? WHERE customer_id = ?, for
\* every fetched row
Updated(table, totals) ==
    [i \in 1..Len(table) |->
        IF \E t \in totals : t[1] = table[i].customer_id
        THEN [table[i] EXCEPT !.total_spent =
                 NewTotal((CHOOSE t \in totals : t[1] = table[i].customer_id)[2])]
        ELSE table[i]]

\* lines 268-269
UpdateTotals ==
    /\ pc = "update_totals"
    /\ LET new == Updated(Customers, cust_totals)
           ok == \A i \in 1..Len(new) : new[i].total_spent >= 0
       IN  /\ Commit("UPDATE Customers", ok, "done")
           /\ Customers' = IF ok THEN new ELSE Customers
           /\ ts_writes' = IF ok
                           THEN [c \in DOMAIN ts_writes |->
                                   ts_writes[c] + RowsWritten(c, cust_totals)]
                           ELSE ts_writes
    /\ UNCHANGED <<cfg, now, rerun_now, rerun_dob, products, customers, missing_sample,
                   dup_indices, k, orders, order_items, shipments, order_id_seq,
                   num_order_dupes, Categories, Products, Orders, Order_Items,
                   Shipments, cust_totals>>

Next ==
    \/ InsertCategories
    \/ GenProduct
    \/ InsertProducts
    \/ GenCustomer
    \/ SampleMissing
    \/ NullContact
    \/ SampleDup
    \/ DupIdentity
    \/ InsertCustomers
    \/ GenOrder
    \/ CountOrderDupes
    \/ GenDupeOrder
    \/ InsertOrders
    \/ InsertOrderItems
    \/ InsertShipments
    \/ SelectTotals
    \/ UpdateTotals

\* The script with its own constants, and a scaled run with the order draws
\* (customer, promo code, item count, copied row) enumerated.
Init == InitWith(FullCfg) \/ InitWith(ScaledCfg({"orders", "counts"}))
Spec == Init /\ [][Next]_vars

\* ... and a scaled run with the item draws (quantity, discount, rounding of
\* a tie) enumerated.
InitItems == InitWith(FullCfg) \/ InitWith(ScaledCfg({"items"}))
SpecItems == InitItems /\ [][Next]_vars

\* ... and a scaled run with the shipment draws enumerated.
InitShipments == InitWith(FullCfg) \/ InitWith(ScaledCfg({"shipments"}))
SpecShipments == InitShipments /\ [][Next]_vars

\* ... and a scaled run with the customer noise draws and the two clocks
\* enumerated.
InitCustomers == InitWith(FullCfg) \/ InitWith(ScaledCfg({"noise", "clock"}))
SpecCustomers == InitCustomers /\ [][Next]_vars

----------------------------------------------------------------------------
(* Properties.                                                             *)

Done == pc = "done"
Persisted(stmt) == stmt \in Range(log)
Scaled == cfg.rich # {}

\* sum of line_total over the Order_Items rows of order oid
LineTotalSum(oid) ==
    SumSeq([n \in 1..Len(Order_Items) |->
              IF Order_Items[n].order_id = oid THEN Order_Items[n].line_total ELSE 0])

ItemRowsOf(oid) == {n \in 1..Len(Order_Items) : Order_Items[n].order_id = oid}

\* C1: once Orders and Order_Items are persisted, every order's order_total
\* (base or near-duplicate) is the sum of line_total over exactly the
\* Order_Items rows with its order_id.  Amounts are whole cents, so the sum
\* rounded to 2 decimals is the sum.
C1_OrderTotalIsItemSum ==
    Persisted("Order_Items") =>
        \A i \in 1..Len(Orders) : Orders[i].order_total = LineTotalSum(Orders[i].order_id)

\* a persisted base order with two items, one of them discounted, beside a
\* persisted near-duplicate
C1_Witness ==
    /\ Persisted("Order_Items")
    /\ Scaled
    /\ Len(Orders) > cfg.NUM_ORDERS
    /\ \E i \in 1..cfg.NUM_ORDERS :
          /\ Cardinality(ItemRowsOf(Orders[i].order_id)) = 2
          /\ \E n \in ItemRowsOf(Orders[i].order_id) :
                Order_Items[n].line_total # Order_Items[n].unit_price * Order_Items[n].quantity
          /\ Orders[i].order_total = LineTotalSum(Orders[i].order_id)

\* sum of order_total over the Orders rows of customer c
SpentBy(c) ==
    SumSeq([i \in 1..Len(Orders) |->
              IF Orders[i].customer_id = c THEN Orders[i].order_total ELSE 0])

HasOrders(c) == \E i \in 1..Len(Orders) : Orders[i].customer_id = c

\* C2: after the aggregation pass every customer id 1..NUM_CUSTOMERS has one
\* Customers row, whose total_spent is the sum of order_total over the Orders
\* rows of that customer, and is 0 for a customer without orders.
C2_TotalSpentIsOrderSum ==
    Done =>
        /\ Len(Customers) = cfg.NUM_CUSTOMERS
        /\ \A c \in 1..cfg.NUM_CUSTOMERS :
              /\ Customers[c].customer_id = c
              /\ Customers[c].total_spent = SpentBy(c)
              /\ ~HasOrders(c) => Customers[c].total_spent = 0

\* a finished run with a customer without orders and a customer whose two or
\* more orders add up
C2_Witness ==
    /\ Done
    /\ Scaled
    /\ \E c \in 1..cfg.NUM_CUSTOMERS : ~HasOrders(c) /\ Customers[c].total_spent = 0
    /\ \E c \in 1..cfg.NUM_CUSTOMERS :
          /\ Cardinality({i \in 1..Len(Orders) : Orders[i].customer_id = c}) >= 2
          /\ Customers[c].total_spent = SpentBy(c)
          /\ Customers[c].total_spent > 0

ForeignKeysHold ==
    /\ \A i \in 1..Len(Products) : Products[i].category_id \in Ids(Categories, "category_id")
    /\ \A i \in 1..Len(Orders) : Orders[i].customer_id \in Ids(Customers, "customer_id")
    /\ \A i \in 1..Len(Order_Items) :
          /\ Order_Items[i].order_id \in Ids(Orders, "order_id")
          /\ Order_Items[i].product_id \in Ids(Products, "product_id")
    /\ \A i \in 1..Len(Shipments) : Shipments[i].order_id \in Ids(Orders, "order_id")

\* C3: no insert is refused, and in the final database every foreign key
\* names a persisted row: Orders.customer_id a customer, Order_Items.order_id
\* an order and product_id a product, Shipments.order_id an order, and
\* Products.category_id one of the 12 category ids; every generated row is
\* persisted.
C3_ReferentialIntegrity ==
    /\ pc # "aborted"
    /\ Done =>
          /\ ForeignKeysHold
          /\ Ids(Categories, "category_id") = 1..12
          /\ Len(Products) = cfg.NUM_PRODUCTS
          /\ Len(Orders) = Len(orders)
          /\ Len(Order_Items) = Len(order_items)
          /\ Len(Shipments) = Len(shipments)

\* a finished run with orders of two customers, their items and a shipment
C3_Witness ==
    /\ Done
    /\ Scaled
    /\ Shipments # <<>>
    /\ Order_Items # <<>>
    /\ \E i, j \in 1..Len(Orders) : Orders[i].customer_id # Orders[j].customer_id

ShipmentDatesOk(r) ==
    /\ r.delivery_date # NoDate =>
          r.shipped_date # NoDate /\ IsoLeq(r.shipped_date, r.delivery_date)
    /\ r.shipped_date = NoDate => r.delivery_date = NoDate

\* C4: in every shipment record, generated or persisted, of a base order or
\* of a near-duplicate: a delivery_date comes with a shipped_date that is not
\* after it, and no shipped_date means no delivery_date.
C4_DeliveryNotBeforeShipping ==
    /\ \A i \in 1..Len(shipments) : ShipmentDatesOk(shipments[i])
    /\ \A i \in 1..Len(Shipments) : ShipmentDatesOk(Shipments[i])

\* persisted shipments: one delivered in a later month than shipped, one
\* never shipped, one shipped and not delivered, one of a near-duplicate order
C4_Witness ==
    /\ Scaled
    /\ \E i \in 1..Len(Shipments) :
          /\ Shipments[i].shipped_date # NoDate
          /\ Shipments[i].delivery_date # NoDate
          /\ Shipments[i].delivery_date[2] # Shipments[i].shipped_date[2]
    /\ \E i \in 1..Len(Shipments) : Shipments[i].shipped_date = NoDate
    /\ \E i \in 1..Len(Shipments) :
          Shipments[i].shipped_date # NoDate /\ Shipments[i].delivery_date = NoDate
    /\ \E i \in 1..Len(Shipments) :
          Shipments[i].order_id > cfg.NUM_ORDERS /\ Shipments[i].delivery_date # NoDate

\* C5: a second run with the same seed, whenever it is started, leaves the
\* same database: here, the same date_of_birth in every Customers row (the
\* other columns come from the seeded draws alone).
C5_SameSeedSameDatabase ==
    Done => \A i \in 1..Len(Customers) : Customers[i].date_of_birth = rerun_dob[i]

\* C6: a completed run persists NUM_ORDERS base orders followed by
\* max(1, int(0.01 * NUM_ORDERS)) near-duplicates, with order ids 1, 2, ...
\* in generation order and none used twice; with the script's constants that
\* is 1400 + 14 = 1414 rows with the ids 1..1414.
C6_OrderCountAndIds ==
    Done =>
        /\ Len(Orders) = cfg.NUM_ORDERS + Max(1, IntPct(cfg.order_dupe_pct, cfg.NUM_ORDERS))
        /\ \A i \in 1..Len(Orders) : Orders[i].order_id = i
        /\ \A i \in (cfg.NUM_ORDERS + 1)..Len(Orders) :
              Cardinality(ItemRowsOf(Orders[i].order_id)) = 1
        /\ cfg = FullCfg =>
              /\ Len(Orders) = 1414
              /\ num_order_dupes = 14
              /\ Ids(Orders, "order_id") = 1..1414

\* the run with the script's constants, complete
C6_Witness == Done /\ cfg = FullCfg /\ Len(Orders) = 1414 /\ Orders[1414].order_id = 1414

DependencyOrder ==
    <<"Categories", "Products", "Customers", "Orders", "Order_Items", "Shipments",
      "UPDATE Customers">>

\* C7: the statements are committed in the order Categories, Products,
\* Customers, Orders, Order_Items, Shipments, then the total_spent update; a
\* table holds rows only once the tables it references are complete, the
\* update runs only after the Orders, Order_Items and Shipments inserts, no
\* insert is refused and at no step does a persisted row reference a row that
\* is not persisted.
C7_DependencyOrder ==
    /\ pc # "aborted"
    /\ Len(log) <= Len(DependencyOrder)
    /\ log = SubSeq(DependencyOrder, 1, Len(log))
    /\ Products # <<>> => Len(Categories) = Len(categories)
    /\ Orders # <<>> => Len(Products) = cfg.NUM_PRODUCTS /\ Len(Customers) = cfg.NUM_CUSTOMERS
    /\ (Order_Items # <<>> \/ Shipments # <<>>) => Orders = orders /\ Orders # <<>>
    /\ (\E c \in DOMAIN ts_writes : ts_writes[c] > 0) =>
          Persisted("Orders") /\ Persisted("Order_Items") /\ Persisted("Shipments")
    /\ ForeignKeysHold

\* a finished scaled run: all seven statements committed
C7_Witness == Done /\ Scaled /\ log = DependencyOrder /\ Shipments # <<>>

\* C8: every persisted near-duplicate order has the customer id, order date
\* and promo code of an order generated before it, and exactly one item row:
\* item_no 1, quantity 1, unit_price the price of its product, line_total the
\* order_total.
C8_NearDuplicateShape ==
    Persisted("Order_Items") =>
        \A i \in (cfg.NUM_ORDERS + 1)..Len(Orders) :
            /\ \E j \in 1..(i - 1) :
                  /\ Orders[j].customer_id = Orders[i].customer_id
                  /\ Orders[j].order_date = Orders[i].order_date
                  /\ Orders[j].promo_code = Orders[i].promo_code
            /\ Cardinality(ItemRowsOf(Orders[i].order_id)) = 1
            /\ \A n \in ItemRowsOf(Orders[i].order_id) :
                  /\ Order_Items[n].item_no = 1
                  /\ Order_Items[n].quantity = 1
                  /\ \E q \in 1..Len(Products) :
                        /\ Products[q].product_id = Order_Items[n].product_id
                        /\ Products[q].price = Order_Items[n].unit_price
                  /\ Orders[i].order_total = Order_Items[n].line_total

\* a persisted near-duplicate that carries a copied promo code
C8_Witness ==
    /\ Persisted("Order_Items")
    /\ Scaled
    /\ \E i \in (cfg.NUM_ORDERS + 1)..Len(Orders) :
          /\ Orders[i].promo_code = "NEW10"
          /\ \E n \in ItemRowsOf(Orders[i].order_id) : Order_Items[n].quantity = 1

NullCount(r) ==
    (IF r.email = None THEN 1 ELSE 0) + (IF r.phone_number = None THEN 1 ELSE 0)
       + (IF r.address = None THEN 1 ELSE 0)

Selected(i) == (i - 1) \in Range(missing_sample)
Targeted(i) == (i - 1) \in Range(dup_indices)

\* C9 as claimed: the persisted Customers table has NUM_CUSTOMERS rows, and
\* the rows with a null contact field are exactly the rows the missing-contact
\* step selected, each with exactly one null.
C9_NullRowsAreTheSelectedRows ==
    Done =>
        /\ Len(Customers) = cfg.NUM_CUSTOMERS
        /\ \A i \in 1..Len(Customers) :
              /\ NullCount(Customers[i]) > 0 <=> Selected(i)
              /\ NullCount(Customers[i]) <= 1

\* C9 amended: the missing-contact step selects int(0.02 * NUM_CUSTOMERS)
\* distinct rows (20 of 1000) and when it ends the rows with a null contact
\* field are exactly those, each with exactly one null; the persisted table
\* has NUM_CUSTOMERS rows, a null phone_number or address only in a selected
\* row, and for every row the duplicate-identity step did not target the rows
\* with a null are still exactly the selected ones with one null each.
C9_NullRowsOutsideDuplicateTargets ==
    /\ pc \notin {"categories", "products", "customers"} =>
          /\ Len(missing_sample) = IntPct(cfg.missing_pct, cfg.NUM_CUSTOMERS)
          /\ Cardinality(Range(missing_sample)) = Len(missing_sample)
          /\ Range(missing_sample) \subseteq 0..(cfg.NUM_CUSTOMERS - 1)
          /\ cfg = FullCfg => Len(missing_sample) = 20 /\ Len(customers) = 1000
    /\ (pc = "missing" /\ k = Len(missing_sample)) =>
          \A i \in 1..Len(customers) :
              NullCount(customers[i]) = IF Selected(i) THEN 1 ELSE 0
    /\ Done =>
          /\ Len(Customers) = cfg.NUM_CUSTOMERS
          /\ \A i \in 1..Len(Customers) :
                /\ (Customers[i].phone_number = None \/ Customers[i].address = None)
                      => Selected(i)
                /\ ~(Customers[i].phone_number = None /\ Customers[i].address = None)
                /\ ~Targeted(i) => NullCount(Customers[i]) = IF Selected(i) THEN 1 ELSE 0

\* a finished run in which the duplicate step, targeting a selected row,
\* filled its null email or gave it a second null
C9_Witness ==
    /\ Done
    /\ Scaled
    /\ \E i \in 1..Len(Customers) :
          Targeted(i) /\ Selected(i) /\ NullCount(Customers[i]) # 1

\* a committed row is kept, and only total_spent of a Customers row changes,
\* and only in the aggregation pass
FrameStep ==
    /\ Categories # <<>> => Categories' = Categories
    /\ Products # <<>> => Products' = Products
    /\ Orders # <<>> => Orders' = Orders
    /\ Order_Items # <<>> => Order_Items' = Order_Items
    /\ Shipments # <<>> => Shipments' = Shipments
    /\ Customers # <<>> =>
          /\ Len(Customers') = Len(Customers)
          /\ \A i \in 1..Len(Customers) :
                [Customers'[i] EXCEPT !.total_spent = 0]
                   = [Customers[i] EXCEPT !.total_spent = 0]
          /\ Customers' # Customers => pc = "update_totals"

\* C10 as claimed: committed rows are never deleted or changed but for
\* Customers.total_spent, which the aggregation pass writes exactly once for
\* each customer.
C10_TotalSpentWrittenOncePerCustomer ==
    [][/\ FrameStep
       /\ pc' = "done" => \A c \in 1..cfg.NUM_CUSTOMERS : ts_writes'[c] = 1]_vars

\* C10 amended: committed rows are never deleted or changed but for
\* Customers.total_spent, which the aggregation pass writes exactly once for
\* each customer that has an order and not at all for the others; before the
\* pass nothing writes it.
C10_TotalSpentWrittenOncePerBuyer ==
    [][/\ FrameStep
       /\ pc' = "done" =>
             \A c \in 1..cfg.NUM_CUSTOMERS :
                 ts_writes'[c] = IF \E i \in 1..Len(Orders') : Orders'[i].customer_id = c
                                 THEN 1 ELSE 0
       /\ pc' # "done" => \A c \in 1..cfg.NUM_CUSTOMERS : ts_writes'[c] = 0]_vars

\* a finished run with a customer written once and a customer never written
C10_Witness ==
    /\ Done
    /\ Scaled
    /\ \E c \in 1..cfg.NUM_CUSTOMERS : ts_writes[c] = 1 /\ Customers[c].total_spent > 0
    /\ \E c \in 1..cfg.NUM_CUSTOMERS : ts_writes[c] = 0 /\ ~HasOrders(c)

====
